---- MODULE Spec2Model ----
(***************************************************************************)
(* A model of the project merge of riverscapes-tools:                      *)
(*   src/lib/riverscapes/riverscapes/merge-projects.py  (the current tool) *)
(*   src/lib/cybercastor/cybercastor/merge-projects.py  (the older tool)   *)
(*                                                                         *)
(* Paths are sequences of one-character strings, so that the regular       *)
(* expression match and the extension test of the code are computed on the *)
(* characters.  A metadata tree (project.rs.xml) is a sequence of nodes in *)
(* document order, each naming its parent by index (0 for the root).       *)
(***************************************************************************)
EXTENDS Integers, Sequences, FiniteSets, TLC

VARIABLES
    projects,              \* projects_lookup: the project keys, in the supplied order
    regex_list,            \* the inclusion patterns
    delete_source,         \* the delete_source flag
    use_exceptions,        \* whether the geometry engine raises on a failed call
    disk,                  \* the source files on disk, <<project root, relative path>>
    pc,                    \* the position of merge_projects
    idx,                   \* the loop position inside the current stage
    project_rasters,       \* the raster catalog (an insertion-ordered dict)
    project_vectors,       \* the vector-container catalog
    bounds_geojson_files,  \* the extent files found
    first_project_xml,     \* the project whose tree becomes the template
    merged,                \* the files of merged_dir: relative path -> content
    union_out,             \* what union_polygons returned
    merged_xml,            \* the merged project.rs.xml (<<>> before it is written)
    error,                 \* the exception that ended the merge ("" if none)
    log,                   \* the log entries written so far
    earlier_run            \* what an earlier run on the same folders left

vars == <<projects, regex_list, delete_source, use_exceptions, disk, pc, idx,
          project_rasters, project_vectors, bounds_geojson_files,
          first_project_xml, merged, union_out, merged_xml, error, log,
          earlier_run>>

\* The largest number of source projects of one merge.
MaxProjects == 2
\* The largest number of extent files handed to union_polygons on its own.
MaxExtents == 3
\* The largest number of entries below the Realization of a tree handed to
\* delete_unmerged_paths on its own.
MaxBlocks == 2
\* The largest number of times merge_projects is run again on the same folders.
MaxReruns == 1

(***************************************************************************)
(* Characters and paths                                                    *)
(***************************************************************************)

\* str.lower(), and the case folding of re.IGNORECASE, on the characters used.
Lower(c) ==
    CASE c = "A" -> "a"
      [] c = "T" -> "t"
      [] c = "I" -> "i"
      [] c = "F" -> "f"
      [] OTHER -> c

LowerStr(s) == [k \in 1..Len(s) |-> Lower(s[k])]

\* str.endswith
EndsWith(s, suffix) ==
    /\ Len(suffix) <= Len(s)
    /\ SubSeq(s, Len(s) - Len(suffix) + 1, Len(s)) = suffix

\* os.path.join(os.path.dirname(project_xml), path)
AbsPath(root, path) == <<root, path>>

P_a_tif     == <<"a", ".", "t", "i", "f">>
P_A_TIF     == <<"A", ".", "T", "I", "F">>
P_s_tif     == <<"s", ".", "t", "i", "f">>
P_c_img     == <<"c", ".", "i", "m", "g">>
P_n_gpkg    == <<"n", ".", "g", "p", "k", "g">>
P_m_gpkg    == <<"m", ".", "g", "p", "k", "g">>
P_r_html    == <<"r", ".", "h", "t", "m", "l">>
P_x_log     == <<"x", ".", "l", "o", "g">>
P_b_geojson == <<"b", ".", "g", "e", "o", "j", "s", "o", "n">>

\* os.path.basename(output_bounds_path), merge_projects
P_project_bounds == <<"p", "b", ".", "g", "e", "o", "j", "s", "o", "n">>
\* os.path.basename(log.instance.logpath): main puts merge-projects.log in merged_dir
P_merge_log == <<"m", "p", ".", "l", "o", "g">>

(***************************************************************************)
(* Regular expressions: re.compile(x, re.IGNORECASE).match(path)           *)
(* A pattern is a sequence of tokens: a literal character, "." and ".*".   *)
(***************************************************************************)
Lit(c) == [t |-> "lit", c |-> c]
Dot    == [t |-> "dot", c |-> "."]
Star   == [t |-> "star", c |-> "."]

RECURSIVE MatchAt(_, _, _, _)
\* Whether pattern pat from token i matches s from position j on (match() anchors
\* the start of the pattern at the start of the string, not its end).
MatchAt(pat, i, s, j) ==
    IF i > Len(pat) THEN TRUE
    ELSE CASE pat[i].t = "lit" ->
                 /\ j <= Len(s)
                 /\ Lower(s[j]) = Lower(pat[i].c)
                 /\ MatchAt(pat, i + 1, s, j + 1)
           [] pat[i].t = "dot" ->
                 /\ j <= Len(s)
                 /\ MatchAt(pat, i + 1, s, j + 1)
           [] OTHER ->
                 \E k \in j..(Len(s) + 1) : MatchAt(pat, i + 1, s, k)

\* A variant of re_match: re.search, which looks for the pattern at every
\* position of the string.
re_search(pat, s) == \E j \in 1..(Len(s) + 1) : MatchAt(pat, 1, s, j)

re_match(pat, s) == MatchAt(pat, 1, s, 1)

\* any([re.compile(x, re.IGNORECASE).match(path) for x in regex_list])
any_match(patterns, path) == \E k \in 1..Len(patterns) : re_match(patterns[k], path)

(***************************************************************************)
(* Metadata trees (xml.etree.ElementTree)                                  *)
(***************************************************************************)
Node(tag, parent, attr, txt, path) ==
    [tag |-> tag, parent |-> parent, attr |-> attr, txt |-> txt, path |-> path]

RECURSIVE IsDescendant(_, _, _)
\* Whether node n lies strictly below node a.
IsDescendant(tree, n, a) ==
    IF n = 0 \/ tree[n].parent = 0 THEN FALSE
    ELSE tree[n].parent = a \/ IsDescendant(tree, tree[n].parent, a)

RECURSIVE SeqOfSet(_)
\* The numbers of a set in increasing order (document order).
SeqOfSet(S) ==
    IF S = {} THEN <<>>
    ELSE LET m == CHOOSE x \in S : \A y \in S : x <= y
         IN <<m>> \o SeqOfSet(S \ {m})

\* tree.findall('.//tag'): every element below the root with that tag.
FindAll(tree, tag) ==
    SeqOfSet({n \in 1..Len(tree) : tree[n].tag = tag /\ tree[n].parent # 0})

\* element.findall('.//tag')
FindAllBelow(tree, a, tag) ==
    SeqOfSet({n \in 1..Len(tree) : tree[n].tag = tag /\ IsDescendant(tree, n, a)})

\* element.find('tag'): the first child with that tag, 0 for None.
Find(tree, a, tag) ==
    LET kids == {n \in 1..Len(tree) : tree[n].tag = tag /\ tree[n].parent = a}
    IN IF kids = {} THEN 0 ELSE CHOOSE x \in kids : \A y \in kids : x <= y

\* tree.findall('.//parent_tag/tag')
FindAllUnder(tree, parent_tag, tag) ==
    SeqOfSet({n \in 1..Len(tree) :
                /\ tree[n].tag = tag
                /\ tree[n].parent # 0
                /\ tree[tree[n].parent].tag = parent_tag
                /\ tree[tree[n].parent].parent # 0})

(***************************************************************************)
(* The source projects.  A project is a directory (root) with a            *)
(* project.rs.xml; its datasets hang below one Realization element.        *)
(***************************************************************************)
NoPath == <<>>

\* <Raster id=..><Name/><Path/></Raster>  (tag is Raster or DEM)
RasterBlock(tag, id, name, path) ==
    << Node(tag, 0, id, "", NoPath),
       Node("Name", 1, "", name, NoPath),
       Node("Path", 1, "", "", path) >>

\* <Geopackage id=..><Name/><Path/><Layers><Vector lyrName=..><Name/></Vector>..
GeopackageBlock(id, name, path, layers) ==
    << Node("Geopackage", 0, id, "", NoPath),
       Node("Name", 1, "", name, NoPath),
       Node("Path", 1, "", "", path),
       Node("Layers", 1, "", "", NoPath) >>
    \o [k \in 1..(2 * Len(layers)) |->
          IF k % 2 = 1
          THEN Node("Vector", 4, layers[(k + 1) \div 2][1], "", NoPath)
          ELSE Node("Name", 4 + k - 1, "", layers[k \div 2][2], NoPath)]

\* <HTMLFile id=..><Path/></HTMLFile>, <LogFile id=..><Path/></LogFile>
FileBlock(tag, id, path) ==
    << Node(tag, 0, id, "", NoPath),
       Node("Path", 1, "", "", path) >>

\* The blocks of a document are placed below the Realization element (node 5).
Place(block, base) ==
    [k \in 1..Len(block) |->
        [block[k] EXCEPT !.parent = IF @ = 0 THEN 5 ELSE base + @]]

RECURSIVE Assemble(_, _)
Assemble(acc, blocks) ==
    IF blocks = <<>> THEN acc
    ELSE Assemble(acc \o Place(Head(blocks), Len(acc)), Tail(blocks))

Document(name, bounds_path, blocks) ==
    Assemble(<< Node("Project", 0, "", "", NoPath),
                Node("Name", 1, "", name, NoPath),
                Node("ProjectBounds", 1, "", "", NoPath),
                Node("Path", 3, "", "", bounds_path),
                Node("Realization", 1, "", "", NoPath) >>, blocks)

\* A cell <<x, y>> is the unit square [x, x+1] x [y, y+1].
ProjectKeys == {"p1", "p2", "p3", "p4", "p5", "p6"}

\* p1: a DEM, a network container with one layer, a report and a log.
\* p2: the same identities under other names, a path in capitals, one more
\*     raster and one more layer; its extent is the square next to p1's.
\* p3: one raster id declared twice, a raster that is no GeoTIFF, a container
\*     without layers; its extent file is absent; one raster file is absent.
\* p4: a single raster; its extent file is absent.
\* p5: its project.rs.xml cannot be parsed.
\* p6: declares p1's container, but neither that file nor its extent file is
\*     on disk.
ProjectOf(key) ==
    CASE key = "p1" ->
           [root |-> "p1", id |-> "id1", xml_ok |-> TRUE,
            meta |-> << <<"ModelVersion", "1">> >>, warehouse |-> "wh",
            tree |-> Document("One", P_b_geojson,
                       << RasterBlock("DEM", "DEM", "DEM", P_a_tif),
                          GeopackageBlock("NET", "Network", P_n_gpkg,
                                          << <<"reaches", "Reaches">> >>),
                          FileBlock("HTMLFile", "REPORT", P_r_html),
                          FileBlock("LogFile", "LOG", P_x_log) >>),
            files |-> {P_b_geojson, P_a_tif, P_n_gpkg, P_r_html, P_x_log},
            extent |-> {<<0, 0>>}]
      [] key = "p2" ->
           [root |-> "p2", id |-> "id2", xml_ok |-> TRUE,
            meta |-> << <<"ModelVersion", "1">> >>, warehouse |-> "wh",
            tree |-> Document("Two", P_b_geojson,
                       << RasterBlock("Raster", "SLOPE", "Slope", P_s_tif),
                          RasterBlock("DEM", "DEM", "Elevation", P_A_TIF),
                          GeopackageBlock("NET", "Net", P_m_gpkg,
                                          << <<"reaches", "Lines">>,
                                             <<"points", "Points">> >>),
                          FileBlock("LogFile", "LOG", P_x_log) >>),
            files |-> {P_b_geojson, P_s_tif, P_A_TIF, P_m_gpkg, P_x_log},
            extent |-> {<<1, 0>>}]
      [] key = "p3" ->
           [root |-> "p3", id |-> "id3", xml_ok |-> TRUE,
            meta |-> << <<"ModelVersion", "1">> >>, warehouse |-> "wh",
            tree |-> Document("Three", P_b_geojson,
                       << RasterBlock("Raster", "SLOPE", "Slope", P_s_tif),
                          RasterBlock("Raster", "SLOPE", "Slope", P_s_tif),
                          RasterBlock("Raster", "IMG", "Image", P_c_img),
                          GeopackageBlock("EMPTY", "Empty", P_n_gpkg, << >>) >>),
            files |-> {P_c_img, P_n_gpkg},
            extent |-> {<<2, 2>>}]
      [] key = "p4" ->
           [root |-> "p4", id |-> "id4", xml_ok |-> TRUE,
            meta |-> << <<"ModelVersion", "1">> >>, warehouse |-> "wh",
            tree |-> Document("Four", P_b_geojson,
                       << RasterBlock("Raster", "HAND", "HAND", P_a_tif) >>),
            files |-> {P_a_tif},
            extent |-> {<<0, 1>>}]
      [] key = "p6" ->
           [root |-> "p6", id |-> "id6", xml_ok |-> TRUE,
            meta |-> << <<"ModelVersion", "1">> >>, warehouse |-> "wh",
            tree |-> Document("Six", P_b_geojson,
                       << GeopackageBlock("NET", "Network", P_n_gpkg,
                                          << <<"reaches", "Reaches">> >>) >>),
            files |-> {},
            extent |-> {<<3, 2>>}]
      [] OTHER ->
           [root |-> "p5", id |-> "id5", xml_ok |-> FALSE,
            meta |-> << >>, warehouse |-> "",
            tree |-> << >>,
            files |-> {},
            extent |-> {}]

\* The inclusion pattern lists tried: '.*' ; '.*\.tif', 'n\.gpkg' ;
\* 'tif', 'a.tif', '.*pkg' ; and the empty list.
RegexLists ==
    { << <<Star>> >>,
      << <<Star, Lit("."), Lit("t"), Lit("i"), Lit("f")>>,
         <<Lit("n"), Lit("."), Lit("g"), Lit("p"), Lit("k"), Lit("g")>> >>,
      << <<Lit("t"), Lit("i"), Lit("f")>>,
         <<Lit("a"), Dot, Lit("t"), Lit("i"), Lit("f")>>,
         <<Star, Lit("p"), Lit("k"), Lit("g")>> >>,
      << >> }

(***************************************************************************)
(* Insertion-ordered dictionaries: a sequence of records with a key field  *)
(***************************************************************************)
HasKey(dict, key) == \E k \in 1..Len(dict) : dict[k].key = key

KeyIndex(dict, key) == CHOOSE k \in 1..Len(dict) : dict[k].key = key

Keys(dict) == {dict[k].key : k \in 1..Len(dict)}

LogEntry(logger, level, msg, path, what) ==
    [logger |-> logger, level |-> level, msg |-> msg, path |-> path, what |-> what]

(***************************************************************************)
(* The catalog fold: get_raster_datasets, get_vector_datasets,             *)
(* get_bounds_geojson_file (riverscapes)                                   *)
(***************************************************************************)
PathOf(tree, n) == tree[Find(tree, n, "Path")].path
NameOf(tree, n) == tree[Find(tree, n, "Name")].txt

\* A variant of raster_entry: the entry takes the name and the path of the
\* last project that declares the identity.
raster_entry_last_wins(root, tree, n, st, patterns) ==
    LET raster_id == tree[n].attr
        path == PathOf(tree, n)
        name == NameOf(tree, n)
    IN IF ~any_match(patterns, path)
       THEN [cat |-> st.cat,
             log |-> Append(st.log, LogEntry("Rasters", "info",
                                "Skipping non-regex raster", path, name))]
       ELSE LET added == IF HasKey(st.cat, raster_id) THEN st.cat
                         ELSE Append(st.cat, [key |-> raster_id, path |-> path,
                                              name |-> name, id |-> raster_id,
                                              occurences |-> << >>])
                k == KeyIndex(added, raster_id)
            IN [cat |-> [added EXCEPT ![k].occurences =
                                    Append(@, [path |-> AbsPath(root, path)]),
                                      ![k].name = name,
                                      ![k].path = path],
                log |-> st.log]

\* One pass of the loop body of get_raster_datasets, for the element n.
raster_entry(root, tree, n, st, patterns) ==
    LET raster_id == tree[n].attr
        path == PathOf(tree, n)
        name == NameOf(tree, n)
    IN IF ~any_match(patterns, path)
       THEN [cat |-> st.cat,
             log |-> Append(st.log, LogEntry("Rasters", "info",
                                "Skipping non-regex raster", path, name))]
       ELSE LET added == IF HasKey(st.cat, raster_id) THEN st.cat
                         ELSE Append(st.cat, [key |-> raster_id, path |-> path,
                                              name |-> name, id |-> raster_id,
                                              occurences |-> << >>])
                k == KeyIndex(added, raster_id)
            IN [cat |-> [added EXCEPT ![k].occurences =
                                    Append(@, [path |-> AbsPath(root, path)])],
                log |-> st.log]

RECURSIVE raster_loop(_, _, _, _, _)
raster_loop(root, tree, elements, st, patterns) ==
    IF elements = << >> THEN st
    ELSE raster_loop(root, tree, Tail(elements),
                     raster_entry(root, tree, Head(elements), st, patterns), patterns)

\* get_raster_datasets(project, master_project, regex_list) of a parsed tree:
\* the catalog and the log it leaves.
get_raster_datasets(project, st, patterns) ==
    LET tree == ProjectOf(project).tree
        rasters == FindAll(tree, "Raster") \o FindAll(tree, "DEM")
    IN raster_loop(ProjectOf(project).root, tree, rasters, st, patterns)

\* A variant of layer_entry: the occurrence is recorded only when the layer is
\* new to the container.
layer_entry_once(root, tree, path, n, layers) ==
    LET fc_name == tree[n].attr
        layer_name == NameOf(tree, n)
    IN IF HasKey(layers, fc_name) THEN layers
       ELSE Append(layers, [key |-> fc_name, fc_name |-> fc_name, name |-> layer_name,
                            occurences |-> << [path |-> AbsPath(root, path)] >>])

\* The inner loop of get_vector_datasets: one Vector element of a container.
layer_entry(root, tree, path, n, layers) ==
    LET fc_name == tree[n].attr
        layer_name == NameOf(tree, n)
        added == IF HasKey(layers, fc_name) THEN layers
                 ELSE Append(layers, [key |-> fc_name, fc_name |-> fc_name,
                                      name |-> layer_name, occurences |-> << >>])
        k == KeyIndex(added, fc_name)
    IN [added EXCEPT ![k].occurences = Append(@, [path |-> AbsPath(root, path)])]

RECURSIVE layer_loop(_, _, _, _, _)
layer_loop(root, tree, path, elements, layers) ==
    IF elements = << >> THEN layers
    ELSE layer_loop(root, tree, path, Tail(elements),
                    layer_entry(root, tree, path, Head(elements), layers))

\* One pass of the outer loop of get_vector_datasets, for the Geopackage n.
geopackage_entry(root, tree, n, st, patterns) ==
    LET gpkg_id == tree[n].attr
        path == PathOf(tree, n)
        name == NameOf(tree, n)
    IN IF ~any_match(patterns, path)
       THEN [cat |-> st.cat,
             log |-> Append(st.log, LogEntry("Vectors", "info",
                                "Skipping non-regex raster", path, name))]
       ELSE LET added == IF HasKey(st.cat, gpkg_id) THEN st.cat
                         ELSE Append(st.cat, [key |-> gpkg_id, rel_path |-> path,
                                              abs_path |-> AbsPath(root, path),
                                              name |-> name, id |-> gpkg_id,
                                              layers |-> << >>])
                k == KeyIndex(added, gpkg_id)
            IN [cat |-> [added EXCEPT ![k].layers =
                            layer_loop(root, tree, path,
                                       FindAllBelow(tree, n, "Vector"), @)],
                log |-> st.log]

RECURSIVE geopackage_loop(_, _, _, _, _)
geopackage_loop(root, tree, elements, st, patterns) ==
    IF elements = << >> THEN st
    ELSE geopackage_loop(root, tree, Tail(elements),
                         geopackage_entry(root, tree, Head(elements), st, patterns),
                         patterns)

get_vector_datasets(project, st, patterns) ==
    LET tree == ProjectOf(project).tree
    IN geopackage_loop(ProjectOf(project).root, tree,
                       FindAll(tree, "Geopackage"), st, patterns)

\* get_bounds_geojson_file: the extent file joins the list if it is on disk.
get_bounds_geojson_file(project, bounds_files, files) ==
    LET tree == ProjectOf(project).tree
        rel_path == tree[Head(FindAllUnder(tree, "ProjectBounds", "Path"))].path
        abs_path == AbsPath(ProjectOf(project).root, rel_path)
    IN IF abs_path \in files THEN Append(bounds_files, abs_path) ELSE bounds_files

(***************************************************************************)
(* Extent polygons.  A polygon is the set of unit cells it covers; the     *)
(* geometry engine (OGR) is modelled by what its calls return.             *)
(***************************************************************************)
GridCells == (0..3) \X (0..2)

OnBorder(c) == c[1] = 0 \/ c[1] = 3 \/ c[2] = 0 \/ c[2] = 2

\* Two cells share an edge.
Adjacent(c, d) ==
    \/ c[1] = d[1] /\ (c[2] = d[2] + 1 \/ d[2] = c[2] + 1)
    \/ c[2] = d[2] /\ (c[1] = d[1] + 1 \/ d[1] = c[1] + 1)

RECURSIVE Closure(_, _)
\* The cells of allowed that S reaches across edges.
Closure(S, allowed) ==
    LET next == S \cup {c \in allowed : \E d \in S : Adjacent(c, d)}
    IN IF next = S THEN S ELSE Closure(next, allowed)

Parts(cells) == {Closure({c}, cells) : c \in cells}

\* The cells enclosed by a polygon without being part of it: its interior rings.
Holes(cells) ==
    LET free == GridCells \ cells
    IN free \ Closure({c \in free : OnBorder(c)}, free)

FirstCell(cells) ==
    CHOOSE c \in cells : \A d \in cells :
        c[1] < d[1] \/ (c[1] = d[1] /\ c[2] <= d[2])

\* The extent polygon stored in each extent file, by the directory holding it.
ExtentOf(root) ==
    CASE root = "donut" -> GridCells \ {<<1, 1>>}
      [] root = "u"     -> {<<0, 0>>, <<1, 0>>, <<2, 0>>, <<0, 1>>, <<2, 1>>}
      [] root = "cap"   -> {<<0, 2>>, <<1, 2>>, <<2, 2>>}
      [] OTHER          -> ProjectOf(root).extent

ExtentRoots == {"p1", "p2", "p3", "p4", "donut", "u", "cap"}

NoGeometry == [type |-> "None", cells |-> {}, seed |-> <<0, 0>>]
EmptyPolygon == [type |-> "Polygon", cells |-> {}, seed |-> <<0, 0>>]

\* ogr.CreateGeometryFromJson({"type": "Polygon", "coordinates": ...})
CreateGeometryFromJson(cells) ==
    [type |-> "Polygon", cells |-> cells, seed |-> FirstCell(cells)]

\* Geometry.Union: a Polygon when the result is in one piece, a MultiPolygon
\* otherwise; the piece of the receiver comes first.
ogr_Union(g, h) ==
    LET cells == g.cells \cup h.cells
    IN [type |-> IF Cardinality(Parts(cells)) = 1 THEN "Polygon" ELSE "MultiPolygon",
        cells |-> cells, seed |-> g.seed]

\* A variant of GetGeometryRef(0): the ring of a Polygon encloses its interior
\* rings without filling them.
GetGeometryRef0_keeps_holes(g) ==
    IF g.type = "Polygon"
    THEN [type |-> "LinearRing", cells |-> g.cells, seed |-> g.seed]
    ELSE [type |-> "Polygon", cells |-> Closure({g.seed}, g.cells), seed |-> g.seed]

\* Geometry.GetGeometryRef(0): the exterior ring of a Polygon, the first member
\* polygon of a MultiPolygon.
GetGeometryRef0(g) ==
    IF g.type = "Polygon"
    THEN [type |-> "LinearRing", cells |-> g.cells \cup Holes(g.cells), seed |-> g.seed]
    ELSE [type |-> "Polygon", cells |-> Closure({g.seed}, g.cells), seed |-> g.seed]

\* A variant of AddGeometry: a member polygon is accepted like a ring.
AddGeometry_any(polygon, sub) ==
    [ok |-> TRUE, geom |-> [type |-> "Polygon", cells |-> sub.cells, seed |-> sub.seed]]

\* Geometry.AddGeometry on a Polygon: only a ring is accepted; anything else is
\* OGRERR_UNSUPPORTED_GEOMETRY_TYPE and leaves the polygon as it was.
AddGeometry(polygon, sub) ==
    IF sub.type = "LinearRing"
    THEN [ok |-> TRUE, geom |-> [type |-> "Polygon", cells |-> sub.cells, seed |-> sub.seed]]
    ELSE [ok |-> FALSE, geom |-> polygon]

RECURSIVE SumOf(_, _)
\* The sum of 2 * c[k] + 1 over the cells: twice the sum of the cell centres.
SumOf(cells, k) ==
    IF cells = {} THEN 0
    ELSE LET c == CHOOSE x \in cells : TRUE
         IN 2 * c[k] + 1 + SumOf(cells \ {c}, k)

RECURSIVE Gcd(_, _)
Gcd(a, b) == IF b = 0 THEN a ELSE Gcd(b, a % b)

\* The fraction a / b in lowest terms.
Fraction(a, b) == <<a \div Gcd(a, b), b \div Gcd(a, b)>>

\* Geometry.Centroid().GetPoint(): the centre of area, (0, 0) for an empty polygon.
Centroid(cells) ==
    IF cells = {} THEN <<Fraction(0, 1), Fraction(0, 1)>>
    ELSE <<Fraction(SumOf(cells, 1), 2 * Cardinality(cells)),
           Fraction(SumOf(cells, 2), 2 * Cardinality(cells))>>

Min(S) == CHOOSE x \in S : \A y \in S : x <= y
Max(S) == CHOOSE x \in S : \A y \in S : x >= y

\* Geometry.GetEnvelope(): (min_x, max_x, min_y, max_y), zeros for an empty polygon.
GetEnvelope(cells) ==
    IF cells = {} THEN <<0, 0, 0, 0>>
    ELSE << Min({c[1] : c \in cells}), Max({c[1] : c \in cells}) + 1,
            Min({c[2] : c \in cells}), Max({c[2] : c \in cells}) + 1 >>

RECURSIVE union_fold(_, _)
\* The loop "for feature in mem_layer": the first feature seeds union_result.
union_fold(union_result, files) ==
    IF files = << >> THEN union_result
    ELSE LET geometry == CreateGeometryFromJson(ExtentOf(Head(files)[1]))
         IN union_fold(IF union_result = NoGeometry THEN geometry
                       ELSE ogr_Union(union_result, geometry),
                       Tail(files))

NoUnion(status, err) ==
    [status |-> status, error |-> err, polygon |-> {},
     centroid |-> Centroid({}), bounding_rect |-> GetEnvelope({})]

\* union_polygons(input_geojson_files, output_geojson_file): what it returns and
\* the polygon it writes, or the exception it raises.
union_polygons(input_geojson_files, exceptions) ==
    LET union_result == union_fold(NoGeometry, input_geojson_files)
    IN IF union_result = NoGeometry
       THEN NoUnion("raise", "AttributeError")
       ELSE LET ring == GetGeometryRef0(union_result)
                added == AddGeometry(EmptyPolygon, ring)
                clean_polygon == added.geom.cells
            IN IF ~added.ok /\ exceptions
               THEN NoUnion("raise", "RuntimeError")
               ELSE [status |-> "ok", error |-> "", polygon |-> clean_polygon,
                     centroid |-> Centroid(clean_polygon),
                     bounding_rect |-> GetEnvelope(clean_polygon)]

(***************************************************************************)
(* The files of merged_dir                                                 *)
(***************************************************************************)
Put(f, k, v) == [x \in DOMAIN f \cup {k} |-> IF x = k THEN v ELSE f[x]]

Drop(f, k) == [x \in DOMAIN f \ {k} |-> f[x]]

Content(kind, from, inputs, layers) ==
    [kind |-> kind, from |-> from, inputs |-> inputs, layers |-> layers]

\* The paths of a list of occurrences.
OccurrencePaths(occurences) == [k \in 1..Len(occurences) |-> occurences[k].path]

(***************************************************************************)
(* process_rasters: one pass of its loop                                   *)
(***************************************************************************)
\* Raster(path): the sample data type and the no-data value (None if the band
\* has none) of each source raster.
Raster(path) ==
    CASE path = AbsPath("p1", P_a_tif) -> [dataType |-> "GDT_Float32", nodata |-> "-9999"]
      [] path = AbsPath("p2", P_s_tif) -> [dataType |-> "GDT_Byte", nodata |-> "None"]
      [] path = AbsPath("p2", P_A_TIF) -> [dataType |-> "GDT_Int64", nodata |-> "0"]
      [] path = AbsPath("p3", P_c_img) -> [dataType |-> "GDT_UInt16", nodata |-> "255"]
      [] OTHER -> [dataType |-> "GDT_Float64", nodata |-> "None"]

integer_raster_enums ==
    {"GDT_Byte", "GDT_UInt16", "GDT_UInt32", "GDT_Int16", "GDT_Int32"}

\* compression = f'COMPRESS={"DEFLATE" if raster.dataType in integer_raster_enums else "LZW"}'
compression(raster) ==
    IF raster.dataType \in integer_raster_enums THEN "COMPRESS=DEFLATE" ELSE "COMPRESS=LZW"

\* no_data = f'-a_nodata {raster.nodata}' if raster.nodata is not None else ''
no_data(raster) ==
    IF raster.nodata # "None" THEN <<"-a_nodata", raster.nodata>> ELSE << >>

\* params: the command line of gdal_merge.py, as the debug entry of the log.
params(raster_info) ==
    LET raster == Raster(raster_info.occurences[1].path)
    IN [logger |-> "Rasters", level |-> "debug", msg |-> "EXECUTING",
        path |-> raster_info.path, what |-> raster_info.name,
        co |-> compression(raster), no_data |-> no_data(raster),
        input_rasters |-> OccurrencePaths(raster_info.occurences)]

\* A variant of process_raster: the occurrences are handed over last first.
process_raster_reversed(raster_info, files, out, outcome) ==
    LET occurences == OccurrencePaths(raster_info.occurences)
        input_rasters == [k \in 1..Len(occurences) |-> occurences[Len(occurences) + 1 - k]]
        Readable(f) == f \in files
    IN IF outcome = "ok"
       THEN Put(out, raster_info.path,
                Content("raster", raster_info.id, SelectSeq(input_rasters, Readable), << >>))
       ELSE out

\* What gdal_merge.py leaves for these inputs: the mosaic of the inputs, or no
\* output when the command fails (its completion status is not looked at).
process_raster(raster_info, files, out, outcome) ==
    LET input_rasters == OccurrencePaths(raster_info.occurences)
        Readable(f) == f \in files
    IN IF outcome = "ok"
       THEN Put(out, raster_info.path,
                Content("raster", raster_info.id, SelectSeq(input_rasters, Readable), << >>))
       ELSE out

\* The completion of the mosaic command: it succeeds when every input can be
\* read; with an input missing it may fail or mosaic the inputs it could read.
MosaicOutcomes(raster_info, files) ==
    IF \A k \in 1..Len(raster_info.occurences) : raster_info.occurences[k].path \in files
    THEN {"ok"}
    ELSE {"ok", "failed"}

\* "if delete_source is True": every source raster still on disk is removed.
delete_sources(raster_info, files, flag) ==
    IF flag
    THEN files \ {raster_info.occurences[k].path : k \in 1..Len(raster_info.occurences)}
    ELSE files

(***************************************************************************)
(* process_vectors: one pass of its outer loop                             *)
(***************************************************************************)
\* The layers a source container holds: those its project declares for it.
LayersOfFile(abs_path) ==
    LET tree == ProjectOf(abs_path[1]).tree
    IN {tree[v].attr : v \in {n \in 1..Len(tree) :
            /\ tree[n].tag = "Vector"
            /\ \E g \in 1..Len(tree) :
                   /\ tree[g].tag = "Geopackage"
                   /\ IsDescendant(tree, n, g)
                   /\ PathOf(tree, g) = abs_path[2]}}

\* The number of features that a layer of a source container holds.
FeatureCount(input_gpkg_file, feature_class) ==
    CASE input_gpkg_file[1] = "p1" /\ feature_class = "reaches" -> 3
      [] input_gpkg_file[1] = "p2" /\ feature_class = "reaches" -> 4
      [] input_gpkg_file[1] = "p2" /\ feature_class = "points" -> 2
      [] OTHER -> 0

RECURSIVE FeaturesOf(_, _)
\* The number of features of an output layer: those of every input appended.
FeaturesOf(sources, feature_class) ==
    IF sources = << >> THEN 0
    ELSE FeatureCount(Head(sources), feature_class) + FeaturesOf(Tail(sources), feature_class)

\* ogr2ogr -append -nln feature_class output input feature_class: the layer of
\* the output grows by the input's features; a failed call changes nothing.
ogr2ogr_append(out, output_gpkg, gpkg_id, feature_class, input_gpkg_file, files) ==
    IF input_gpkg_file \notin files \/ feature_class \notin LayersOfFile(input_gpkg_file)
    THEN out
    ELSE LET old == IF output_gpkg \in DOMAIN out /\ out[output_gpkg].kind = "gpkg"
                    THEN out[output_gpkg]
                    ELSE Content("gpkg", gpkg_id, << >>, << >>)
             layers == IF HasKey(old.layers, feature_class) THEN old.layers
                       ELSE Append(old.layers, [key |-> feature_class, sources |-> << >>])
             k == KeyIndex(layers, feature_class)
         IN Put(out, output_gpkg,
                [old EXCEPT !.layers =
                    [layers EXCEPT ![k].sources = Append(@, input_gpkg_file)]])

RECURSIVE occurrence_loop(_, _, _, _, _, _)
occurrence_loop(out, output_gpkg, gpkg_id, feature_class, inputs, files) ==
    IF inputs = << >> THEN out
    ELSE occurrence_loop(
             ogr2ogr_append(out, output_gpkg, gpkg_id, feature_class, Head(inputs), files),
             output_gpkg, gpkg_id, feature_class, Tail(inputs), files)

RECURSIVE feature_class_loop(_, _, _, _)
feature_class_loop(out, gpkg_info, layers, files) ==
    IF layers = << >> THEN out
    ELSE feature_class_loop(
             occurrence_loop(out, gpkg_info.rel_path, gpkg_info.id, Head(layers).fc_name,
                             OccurrencePaths(Head(layers).occurences), files),
             gpkg_info, Tail(layers), files)

RECURSIVE occurrence_log(_, _)
\* log.debug(f'EXECUTING: {cmd}') of every pass of the inner loop.
occurrence_log(feature_class, inputs) ==
    IF inputs = << >> THEN << >>
    ELSE <<LogEntry("Vectors", "debug", "EXECUTING", Head(inputs), feature_class)>>
         \o occurrence_log(feature_class, Tail(inputs))

RECURSIVE feature_class_log(_)
feature_class_log(layers) ==
    IF layers = << >> THEN << >>
    ELSE occurrence_log(Head(layers).fc_name, OccurrencePaths(Head(layers).occurences))
         \o feature_class_log(Tail(layers))

\* What one pass of the outer loop of process_vectors writes to the log.
vector_log(gpkg_info) ==
    <<LogEntry("Vectors", "info", "Processing GeoPackage",
               gpkg_info.rel_path, gpkg_info.name)>>
    \o feature_class_log(gpkg_info.layers)

\* The body of "for gpkg_info in master_project.values()".
process_vector(gpkg_info, out, files) ==
    LET cleared == IF gpkg_info.rel_path \in DOMAIN out
                   THEN Drop(out, gpkg_info.rel_path) ELSE out
    IN feature_class_loop(cleared, gpkg_info, gpkg_info.layers, files)

(***************************************************************************)
(* The merged project.rs.xml: the template, replace_log_file,              *)
(* delete_unmerged_paths                                                   *)
(***************************************************************************)
NoXml == [written |-> FALSE, tree |-> << >>, name |-> "", centroid |-> Centroid({}),
          bounding_box |-> [minLng |-> 0, minLat |-> 0, maxLng |-> 0, maxLat |-> 0],
          meta_data |-> << >>, warehouse |-> ""]

\* BoundingBox(minLng, minLat, maxLng, maxLat) of rsxml, by position.
BoundingBox(a, b, c, d) == [minLng |-> a, minLat |-> b, maxLng |-> c, maxLat |-> d]

\* The project URLs of the 'projects' entry, in the order of projects_lookup.
project_urls(keys) == [k \in 1..Len(keys) |-> ProjectOf(keys[k]).id]

\* A variant of merge_project: the new entries are added to the metadata of the
\* template and the warehouse reference is left alone.
merge_project_keeps_meta(template, keys, union) ==
    LET tree == ProjectOf(template).tree
        bounds == FindAllUnder(tree, "ProjectBounds", "Path")
    IN [written |-> TRUE,
        tree |-> [n \in 1..Len(tree) |->
                    IF n \in {bounds[k] : k \in 1..Len(bounds)}
                    THEN [tree[n] EXCEPT !.path = P_project_bounds]
                    ELSE tree[n]],
        name |-> "merged",
        centroid |-> union.centroid,
        bounding_box |-> BoundingBox(union.bounding_rect[1], union.bounding_rect[3],
                                     union.bounding_rect[2], union.bounding_rect[4]),
        meta_data |-> ProjectOf(template).meta \o
                      << <<"projects", project_urls(keys)>>,
                         <<"Date Created", << >> >>,
                         <<"Collection ID", << >> >> >>,
        warehouse |-> ProjectOf(template).warehouse]

\* merge_projects from Project.load_project to merge_project.write: the template
\* with its name, bounds, metadata and warehouse replaced.
merge_project(template, keys, union) ==
    LET tree == ProjectOf(template).tree
        bounds == FindAllUnder(tree, "ProjectBounds", "Path")
    IN [written |-> TRUE,
        tree |-> [n \in 1..Len(tree) |->
                    IF n \in {bounds[k] : k \in 1..Len(bounds)}
                    THEN [tree[n] EXCEPT !.path = P_project_bounds]
                    ELSE tree[n]],
        name |-> "merged",
        centroid |-> union.centroid,
        bounding_box |-> BoundingBox(union.bounding_rect[1], union.bounding_rect[3],
                                     union.bounding_rect[2], union.bounding_rect[4]),
        meta_data |-> << <<"projects", project_urls(keys)>>,
                         <<"Date Created", << >> >>,
                         <<"Collection ID", << >> >> >>,
        warehouse |-> ""]

\* A variant of replace_log_file: the search is './LogFile/Path', only the
\* LogFile elements that are children of the root.
replace_log_file_shallow(tree) ==
    LET log_files == {n \in 1..Len(tree) :
                        /\ tree[n].tag = "Path"
                        /\ tree[n].parent # 0
                        /\ tree[tree[n].parent].tag = "LogFile"
                        /\ tree[tree[n].parent].parent = 1}
    IN [n \in 1..Len(tree) |->
          IF n \in log_files THEN [tree[n] EXCEPT !.path = P_merge_log] ELSE tree[n]]

\* replace_log_file: every LogFile/Path gets the name of the merge's log.
replace_log_file(tree) ==
    LET log_files == FindAllUnder(tree, "LogFile", "Path")
    IN [n \in 1..Len(tree) |->
          IF n \in {log_files[k] : k \in 1..Len(log_files)}
          THEN [tree[n] EXCEPT !.path = P_merge_log]
          ELSE tree[n]]

\* file_ext of delete_unmerged_paths
file_ext == << <<"g", "p", "k", "g">>, <<"g", "e", "o", "j", "s", "o", "n">>,
               <<"t", "i", "f">>, <<"t", "i", "f", "f">>, <<"l", "o", "g">> >>

\* matches = [ext for ext in file_ext if path_element.text.lower().endswith(ext)]
ext_matches(text) ==
    {k \in 1..Len(file_ext) : EndsWith(LowerStr(text), file_ext[k])}

RECURSIVE delete_loop(_, _, _)
\* The loop of delete_unmerged_paths over the Path elements found before it
\* starts; detached holds the elements removed from their parent so far.
delete_loop(tree, path_elements, detached) ==
    IF path_elements = << >> THEN [error |-> "", detached |-> detached]
    ELSE LET path_element == Head(path_elements)
             parent == tree[path_element].parent
             grandparent == tree[parent].parent
         IN IF tree[path_element].path = NoPath
            THEN [error |-> "AttributeError", detached |-> detached]
            ELSE IF ext_matches(tree[path_element].path) # {}
            THEN delete_loop(tree, Tail(path_elements), detached)
            ELSE IF grandparent = 0
            THEN [error |-> "KeyError", detached |-> detached]
            ELSE IF parent \in detached
            THEN [error |-> "ValueError", detached |-> detached]
            ELSE delete_loop(tree, Tail(path_elements), detached \cup {parent})

RECURSIVE Attached(_, _, _)
\* Whether node n still hangs below the root.
Attached(tree, detached, n) ==
    /\ n \notin detached
    /\ (tree[n].parent = 0 \/ Attached(tree, detached, tree[n].parent))

\* tree.write: the elements still attached, in document order.
Serialize(tree, detached) ==
    LET keep == {n \in 1..Len(tree) : Attached(tree, detached, n)}
        order == SeqOfSet(keep)
        NewIndex(n) == IF n = 0 THEN 0 ELSE Cardinality({m \in keep : m <= n})
    IN [k \in 1..Len(order) |->
          [tree[order[k]] EXCEPT !.parent = NewIndex(@)]]

\* delete_unmerged_paths: the tree it writes back, or the exception it raises
\* (the file then stays as it was).
delete_unmerged_paths(tree) ==
    LET done == delete_loop(tree, FindAll(tree, "Path"), {})
    IN IF done.error # ""
       THEN [error |-> done.error, tree |-> tree]
       ELSE [error |-> "", tree |-> Serialize(tree, done.detached)]

(***************************************************************************)
(* merge_projects (riverscapes)                                            *)
(***************************************************************************)
Range(f) == {f[k] : k \in DOMAIN f}

\* The lists of at most n different members of S.
ListsOf(S, n) ==
    {f \in UNION {[1..m -> S] : m \in 0..n} :
        \A a, b \in DOMAIN f : a # b => f[a] # f[b]}

\* A variant of AfterRasters: process_vectors is not called.
AfterRasters_without_vectors(vectors) == "union"

AfterRasters(vectors) == IF Len(vectors) > 0 THEN "vectors" ELSE "union"

AfterFold(rasters, vectors) ==
    IF Len(rasters) > 0 THEN "rasters" ELSE AfterRasters(vectors)

\* No earlier run: merged_dir holds the log of this run only.
NoRun == [count |-> 0, merged |-> << >>, merged_xml |-> NoXml]

Start(keys) ==
    /\ earlier_run = NoRun
    /\ disk = UNION {{AbsPath(ProjectOf(k).root, f) : f \in ProjectOf(k).files} : k \in keys}
    /\ idx = 1
    /\ project_rasters = << >>
    /\ project_vectors = << >>
    /\ first_project_xml = "None"
    /\ merged = (P_merge_log :> Content("log", "", << >>, << >>))
    /\ union_out = NoUnion("none", "")
    /\ merged_xml = NoXml
    /\ error = ""
    /\ log = << >>

Init ==
    /\ projects \in ListsOf(ProjectKeys, MaxProjects) \ {<< >>}
    /\ regex_list \in RegexLists
    /\ delete_source \in BOOLEAN
    /\ use_exceptions \in BOOLEAN
    /\ bounds_geojson_files = << >>
    /\ pc = "fold"
    /\ Start(Range(projects))

Fail(err) ==
    /\ pc' = "failed"
    /\ error' = err

\* One pass of "for proj_path, project in projects_lookup.items()".
FoldProject ==
    /\ pc = "fold"
    /\ LET project == projects[idx]
           r == get_raster_datasets(project, [cat |-> project_rasters, log |-> log],
                                    regex_list)
           v == get_vector_datasets(project, [cat |-> project_vectors, log |-> r.log],
                                    regex_list)
       IN /\ first_project_xml' = project
          /\ IF ~ProjectOf(project).xml_ok
             THEN /\ Fail("ParseError")
                  /\ UNCHANGED <<idx, project_rasters, project_vectors,
                                 bounds_geojson_files, log>>
             ELSE /\ project_rasters' = r.cat
                  /\ project_vectors' = v.cat
                  /\ log' = v.log
                  /\ bounds_geojson_files' =
                         get_bounds_geojson_file(project, bounds_geojson_files, disk)
                  /\ IF idx < Len(projects)
                     THEN idx' = idx + 1 /\ pc' = "fold"
                     ELSE idx' = 1 /\ pc' = AfterFold(r.cat, v.cat)
                  /\ error' = error
    /\ UNCHANGED <<earlier_run, projects, regex_list, delete_source, use_exceptions, disk,
                   merged, union_out, merged_xml>>

\* One pass of the loop of process_rasters.
ProcessRaster ==
    /\ pc = "rasters"
    /\ LET raster_info == project_rasters[idx]
           started == Append(log, LogEntry("Rasters", "info", "Merging rasters",
                                           raster_info.path, raster_info.name))
       IN IF raster_info.occurences[1].path \notin disk
          THEN /\ Fail("RasterOpenError")
               /\ log' = started
               /\ UNCHANGED <<idx, merged, disk>>
          ELSE /\ \E outcome \in MosaicOutcomes(raster_info, disk) :
                      merged' = process_raster(raster_info, disk, merged, outcome)
               /\ disk' = delete_sources(raster_info, disk, delete_source)
               /\ log' = Append(started, params(raster_info))
               /\ IF idx < Len(project_rasters)
                  THEN idx' = idx + 1 /\ pc' = "rasters"
                  ELSE idx' = 1 /\ pc' = AfterRasters(project_vectors)
               /\ error' = error
    /\ UNCHANGED <<earlier_run, projects, regex_list, delete_source, use_exceptions,
                   project_rasters, project_vectors, bounds_geojson_files,
                   first_project_xml, union_out, merged_xml>>

\* One pass of the outer loop of process_vectors.
ProcessVector ==
    /\ pc = "vectors"
    /\ LET gpkg_info == project_vectors[idx]
       IN /\ merged' = process_vector(gpkg_info, merged, disk)
          /\ log' = log \o vector_log(gpkg_info)
    /\ IF idx < Len(project_vectors)
       THEN idx' = idx + 1 /\ pc' = "vectors"
       ELSE idx' = 1 /\ pc' = "union"
    /\ UNCHANGED <<earlier_run, projects, regex_list, delete_source, use_exceptions, disk,
                   project_rasters, project_vectors, bounds_geojson_files,
                   first_project_xml, union_out, merged_xml, error>>

\* output_driver.CreateDataSource(output_geojson_file) and the CreateLayer call
\* on its result: the GeoJSON driver does not overwrite an existing file, the
\* call raises when the engine's exceptions are on and returns None otherwise.
CreateDataSource(out, output_geojson_file, exceptions) ==
    IF output_geojson_file \notin DOMAIN out THEN ""
    ELSE IF exceptions THEN "RuntimeError" ELSE "AttributeError"

\* centroid, bounding_rect = union_polygons(bounds_geojson_files, output_bounds_path)
UnionPolygons ==
    /\ pc = "union"
    /\ LET u == union_polygons(bounds_geojson_files, use_exceptions)
           created == CreateDataSource(merged, P_project_bounds, use_exceptions)
       IN IF u.status = "raise"
          THEN /\ Fail(u.error)
               /\ UNCHANGED <<merged, union_out>>
          ELSE IF created # ""
          THEN /\ Fail(created)
               /\ UNCHANGED <<merged, union_out>>
          ELSE /\ pc' = "write"
               /\ union_out' = u
               /\ merged' = Put(merged, P_project_bounds,
                                Content("geojson", "", bounds_geojson_files, << >>))
               /\ error' = error
    /\ UNCHANGED <<earlier_run, projects, regex_list, delete_source, use_exceptions, disk, idx,
                   project_rasters, project_vectors, bounds_geojson_files,
                   first_project_xml, merged_xml, log>>

\* Project.load_project(first_project_xml) ... merge_project.write(merged_project_xml)
WriteProject ==
    /\ pc = "write"
    /\ merged_xml' = merge_project(first_project_xml, projects, union_out)
    /\ pc' = "replace_log"
    /\ UNCHANGED <<earlier_run, projects, regex_list, delete_source, use_exceptions, disk, idx,
                   project_rasters, project_vectors, bounds_geojson_files,
                   first_project_xml, merged, union_out, error, log>>

ReplaceLogFile ==
    /\ pc = "replace_log"
    /\ merged_xml' = [merged_xml EXCEPT !.tree = replace_log_file(@)]
    /\ pc' = "delete_unmerged"
    /\ UNCHANGED <<earlier_run, projects, regex_list, delete_source, use_exceptions, disk, idx,
                   project_rasters, project_vectors, bounds_geojson_files,
                   first_project_xml, merged, union_out, error, log>>

DeleteUnmergedPaths ==
    /\ pc = "delete_unmerged"
    /\ LET d == delete_unmerged_paths(merged_xml.tree)
       IN /\ merged_xml' = [merged_xml EXCEPT !.tree = d.tree]
          /\ IF d.error # "" THEN Fail(d.error) ELSE pc' = "done" /\ error' = error
    /\ UNCHANGED <<earlier_run, projects, regex_list, delete_source, use_exceptions, disk, idx,
                   project_rasters, project_vectors, bounds_geojson_files,
                   first_project_xml, merged, union_out, log>>

Next ==
    \/ FoldProject
    \/ ProcessRaster
    \/ ProcessVector
    \/ UnionPolygons
    \/ WriteProject
    \/ ReplaceLogFile
    \/ DeleteUnmergedPaths

Spec == Init /\ [][Next]_vars

(***************************************************************************)
(* main: the pattern list it builds from the answer to its prompt          *)
(***************************************************************************)
\* default_file_regex = r'.*', and the empty answer, as lists of patterns.
default_file_regex == << <<Star>> >>

EmptyAnswer == << << >> >>

\* The answers tried: the default, the empty one, and '.*\.tif|n\.gpkg'.
Answers ==
    { default_file_regex,
      EmptyAnswer,
      << <<Star, Lit("."), Lit("t"), Lit("i"), Lit("f")>>,
         <<Lit("n"), Lit("."), Lit("g"), Lit("p"), Lit("k"), Lit("g")>> >> }

\* The pattern that spells a name, every character escaped.
Escaped(name) == [k \in 1..Len(name) |-> Lit(name[k])]

\* project.rs.xml, under the short name it has here.
P_project_xml == <<"p", ".", "x", "m", "l">>

\* file_regex_list of main: the answer split at the pipes unless it is the
\* default or empty, then the three patterns that are always appended.
file_regex_list(answer) ==
    (IF answer # default_file_regex /\ answer # EmptyAnswer THEN answer ELSE << >>)
    \o << Escaped(P_project_xml),
          Escaped(P_project_bounds),
          <<Star, Lit("."), Lit("l"), Lit("o"), Lit("g")>> >>

InitMain ==
    /\ projects \in ListsOf(ProjectKeys, MaxProjects) \ {<< >>}
    /\ regex_list \in {file_regex_list(answer) : answer \in Answers}
    /\ delete_source \in BOOLEAN
    /\ use_exceptions \in BOOLEAN
    /\ bounds_geojson_files = << >>
    /\ pc = "fold"
    /\ Start(Range(projects))

SpecMain == InitMain /\ [][Next]_vars

(***************************************************************************)
(* delete_unmerged_paths on its own, for well-formed trees of every shape  *)
(***************************************************************************)
\* a.xlog: a name that ends in 'log' and whose extension is not log.
P_a_xlog == <<"a", ".", "x", "l", "o", "g">>

\* <Shape><Path/><Path/></Shape>: an entry with two files.
TwoPathBlock(first, second) ==
    << Node("Shape", 0, "SHP", "", NoPath),
       Node("Path", 1, "", "", first),
       Node("Path", 1, "", "", second) >>

\* <tag><Path/><Sub><tag2><Path/></tag2></Sub></tag>: an entry inside an entry.
NestedBlock(tag, path, inner_tag, inner_path) ==
    << Node(tag, 0, "OUTER", "", NoPath),
       Node("Path", 1, "", "", path),
       Node("Sub", 1, "", "", NoPath),
       Node(inner_tag, 3, "INNER", "", NoPath),
       Node("Path", 4, "", "", inner_path) >>

\* The entries tried below the Realization.
DeleteBlocks ==
    { FileBlock("HTMLFile", "REPORT", P_r_html),
      FileBlock("LogFile", "LOG", P_x_log),
      FileBlock("File", "XLOG", P_a_xlog),
      FileBlock("File", "NOTEXT", NoPath),
      RasterBlock("Raster", "DEM", "DEM", P_A_TIF),
      RasterBlock("Raster", "IMG", "Image", P_c_img),
      GeopackageBlock("NET", "Network", P_n_gpkg, << <<"reaches", "Reaches">> >>),
      TwoPathBlock(P_r_html, P_c_img),
      TwoPathBlock(P_a_tif, P_r_html),
      NestedBlock("HTMLFile", P_r_html, "Raster", P_a_tif),
      NestedBlock("HTMLFile", P_r_html, "File", P_c_img),
      NestedBlock("Geopackage", P_n_gpkg, "HTMLFile", P_r_html) }

\* A Path element that is a child of the root, or none.
RootPaths ==
    { << >>,
      << Node("Path", 1, "", "", P_r_html) >>,
      << Node("Path", 1, "", "", P_a_tif) >> }

\* The well-formed trees handed to delete_unmerged_paths.
TestTrees ==
    {Document("Merged", P_project_bounds, blocks) \o root_path :
        blocks \in ListsOf(DeleteBlocks, MaxBlocks), root_path \in RootPaths}

InitDelete ==
    /\ projects = << >>
    /\ regex_list = << >>
    /\ delete_source = FALSE
    /\ use_exceptions = FALSE
    /\ disk = {}
    /\ pc = "delete_unmerged"
    /\ idx = 1
    /\ project_rasters = << >>
    /\ project_vectors = << >>
    /\ bounds_geojson_files = << >>
    /\ first_project_xml = "None"
    /\ merged = (P_merge_log :> Content("log", "", << >>, << >>))
    /\ union_out = NoUnion("none", "")
    /\ merged_xml \in {[NoXml EXCEPT !.written = TRUE, !.tree = tree] : tree \in TestTrees}
    /\ error = ""
    /\ log = << >>
    /\ earlier_run = NoRun

SpecDelete == InitDelete /\ [][DeleteUnmergedPaths]_vars

(***************************************************************************)
(* merge_projects run again with the same arguments once it has returned   *)
(***************************************************************************)
\* A new call of merge_projects: its locals start afresh, the source folders
\* and merged_dir are as the call before left them.
Rerun ==
    /\ pc = "done"
    /\ earlier_run.count < MaxReruns
    /\ earlier_run' = IF earlier_run.count = 0
                      THEN [count |-> 1, merged |-> merged, merged_xml |-> merged_xml]
                      ELSE [earlier_run EXCEPT !.count = @ + 1]
    /\ pc' = "fold"
    /\ idx' = 1
    /\ project_rasters' = << >>
    /\ project_vectors' = << >>
    /\ bounds_geojson_files' = << >>
    /\ first_project_xml' = "None"
    /\ union_out' = NoUnion("none", "")
    /\ UNCHANGED <<projects, regex_list, delete_source, use_exceptions, disk,
                   merged, merged_xml, error, log>>

NextRerun ==
    \/ Next
    \/ Rerun

SpecRerun == Init /\ [][NextRerun]_vars

(***************************************************************************)
(* union_polygons on its own, for every list of extent files               *)
(***************************************************************************)
ExtentFiles == {AbsPath(r, P_b_geojson) : r \in ExtentRoots}

InitUnion ==
    /\ projects = << >>
    /\ regex_list = << >>
    /\ delete_source = FALSE
    /\ use_exceptions \in BOOLEAN
    /\ bounds_geojson_files \in ListsOf(ExtentFiles, MaxExtents)
    /\ pc = "union"
    /\ Start({})

SpecUnion == InitUnion /\ [][UnionPolygons]_vars

(***************************************************************************)
(* The cybercastor merge-projects.py: no inclusion patterns, no merge of   *)
(* the datasets (the calls are commented out), no pruning of the tree.     *)
(***************************************************************************)
\* The key of "if id not in master_project": id is Python's built-in function.
BuiltinId == "<built-in function id>"

\* One pass of the loop of the cybercastor get_raster_datasets.
cc_raster_entry(root, tree, n, cat) ==
    LET raster_id == tree[n].attr
        path == PathOf(tree, n)
        name == NameOf(tree, n)
        added == IF HasKey(cat, BuiltinId) THEN cat
                 ELSE Append(cat, [key |-> BuiltinId, path |-> path, name |-> name,
                                   id |-> raster_id, occurences |-> << >>])
        k == KeyIndex(added, BuiltinId)
    IN [added EXCEPT ![k].occurences = Append(@, [path |-> AbsPath(root, path)])]

RECURSIVE cc_raster_loop(_, _, _, _)
cc_raster_loop(root, tree, elements, cat) ==
    IF elements = << >> THEN cat
    ELSE cc_raster_loop(root, tree, Tail(elements),
                        cc_raster_entry(root, tree, Head(elements), cat))

cc_get_raster_datasets(project, cat) ==
    LET tree == ProjectOf(project).tree
    IN cc_raster_loop(ProjectOf(project).root, tree, FindAll(tree, "Raster"), cat)

\* One pass of the outer loop of the cybercastor get_vector_datasets.
cc_geopackage_entry(root, tree, n, cat) ==
    LET gpkg_id == tree[n].attr
        path == PathOf(tree, n)
        name == NameOf(tree, n)
        added == IF HasKey(cat, gpkg_id) THEN cat
                 ELSE Append(cat, [key |-> gpkg_id, rel_path |-> path,
                                   abs_path |-> AbsPath(root, path),
                                   name |-> name, id |-> gpkg_id, layers |-> << >>])
        k == KeyIndex(added, gpkg_id)
    IN [added EXCEPT ![k].layers =
            layer_loop(root, tree, path, FindAllBelow(tree, n, "Vector"), @)]

RECURSIVE cc_geopackage_loop(_, _, _, _)
cc_geopackage_loop(root, tree, elements, cat) ==
    IF elements = << >> THEN cat
    ELSE cc_geopackage_loop(root, tree, Tail(elements),
                            cc_geopackage_entry(root, tree, Head(elements), cat))

cc_get_vector_datasets(project, cat) ==
    LET tree == ProjectOf(project).tree
    IN cc_geopackage_loop(ProjectOf(project).root, tree, FindAll(tree, "Geopackage"), cat)

\* The cybercastor union_polygons: the union itself is measured and written.
cc_union_polygons(input_geojson_files) ==
    LET union_result == union_fold(NoGeometry, input_geojson_files)
    IN IF union_result = NoGeometry
       THEN NoUnion("raise", "AttributeError")
       ELSE [status |-> "ok", error |-> "", polygon |-> union_result.cells,
             centroid |-> Centroid(union_result.cells),
             bounding_rect |-> GetEnvelope(union_result.cells)]

\* The cybercastor merge_projects from Project.load_project(projects[0]) to write.
cc_merge_project(keys, union) ==
    LET template == ProjectOf(keys[1])
        bounds == FindAllUnder(template.tree, "ProjectBounds", "Path")
    IN [written |-> TRUE,
        tree |-> [n \in 1..Len(template.tree) |->
                    IF n \in {bounds[k] : k \in 1..Len(bounds)}
                    THEN [template.tree[n] EXCEPT !.path = P_project_bounds]
                    ELSE template.tree[n]],
        name |-> "merged",
        centroid |-> union.centroid,
        bounding_box |-> BoundingBox(union.bounding_rect[1], union.bounding_rect[2],
                                     union.bounding_rect[3], union.bounding_rect[4]),
        meta_data |-> << >>,
        warehouse |-> template.warehouse]

\* One pass of "for project in projects".
CCFoldProject ==
    /\ pc = "fold"
    /\ LET project == projects[idx]
       IN IF ~ProjectOf(project).xml_ok
          THEN /\ Fail("ParseError")
               /\ UNCHANGED <<idx, project_rasters, project_vectors, bounds_geojson_files>>
          ELSE /\ project_rasters' = cc_get_raster_datasets(project, project_rasters)
               /\ project_vectors' = cc_get_vector_datasets(project, project_vectors)
               /\ bounds_geojson_files' =
                      get_bounds_geojson_file(project, bounds_geojson_files, disk)
               /\ IF idx < Len(projects)
                  THEN idx' = idx + 1 /\ pc' = "fold"
                  ELSE idx' = 1 /\ pc' = "union"
               /\ error' = error
    /\ UNCHANGED <<earlier_run, projects, regex_list, delete_source, use_exceptions, disk,
                   first_project_xml, merged, union_out, merged_xml, log>>

CCUnionPolygons ==
    /\ pc = "union"
    /\ LET u == cc_union_polygons(bounds_geojson_files)
           created == CreateDataSource(merged, P_project_bounds, use_exceptions)
       IN IF u.status = "raise"
          THEN /\ Fail(u.error)
               /\ UNCHANGED <<merged, union_out>>
          ELSE IF created # ""
          THEN /\ Fail(created)
               /\ UNCHANGED <<merged, union_out>>
          ELSE /\ pc' = "write"
               /\ union_out' = u
               /\ merged' = Put(merged, P_project_bounds,
                                Content("geojson", "", bounds_geojson_files, << >>))
               /\ error' = error
    /\ UNCHANGED <<earlier_run, projects, regex_list, delete_source, use_exceptions, disk, idx,
                   project_rasters, project_vectors, bounds_geojson_files,
                   first_project_xml, merged_xml, log>>

CCWriteProject ==
    /\ pc = "write"
    /\ merged_xml' = cc_merge_project(projects, union_out)
    /\ first_project_xml' = projects[1]
    /\ pc' = "done"
    /\ UNCHANGED <<earlier_run, projects, regex_list, delete_source, use_exceptions, disk, idx,
                   project_rasters, project_vectors, bounds_geojson_files,
                   merged, union_out, error, log>>

InitCC ==
    /\ projects \in ListsOf(ProjectKeys, MaxProjects) \ {<< >>}
    /\ regex_list = << >>
    /\ delete_source = FALSE
    /\ use_exceptions \in BOOLEAN
    /\ bounds_geojson_files = << >>
    /\ pc = "fold"
    /\ Start(Range(projects))

NextCC ==
    \/ CCFoldProject
    \/ CCUnionPolygons
    \/ CCWriteProject

SpecCC == InitCC /\ [][NextCC]_vars

(***************************************************************************)
(* Properties                                                              *)
(***************************************************************************)
\* The number of projects whose loop pass has completed.
Folded ==
    IF pc = "fold" \/ error = "ParseError" THEN idx - 1 ELSE Len(projects)

TreeOf(k) == ProjectOf(projects[k]).tree

RootOf(k) == ProjectOf(projects[k]).root

\* The elements of a tree with one of the tags, the root apart.
Elements(tree, tags) ==
    {n \in 1..Len(tree) : tree[n].tag \in tags /\ tree[n].parent # 0}

\* The Path elements of the merged project.rs.xml.
MergedPaths ==
    {merged_xml.tree[n].path : n \in Elements(merged_xml.tree, {"Path"})}

\* C1: after merge_projects completes, every Path element of the merged
\* project.rs.xml names a file that exists in the merged output directory.
C1_DeclaredPathsExist ==
    pc = "done" => \A path \in MergedPaths : path \in DOMAIN merged

\* C2: after the fold the raster catalog has exactly one entry per distinct
\* raster id declared across the projects, keyed by that id (read here on the
\* cybercastor get_raster_datasets, which reads the Raster elements and has no
\* inclusion patterns).
C2_OneEntryPerRasterId ==
    pc \in {"union", "write", "done"} =>
        Keys(project_rasters) =
            UNION {{TreeOf(k)[n].attr : n \in Elements(TreeOf(k), {"Raster"})} :
                       k \in 1..Len(projects)}

\* Two characters that are the same letter, whatever their case.
SameLetter(a, b) ==
    \/ a = b
    \/ {a, b} \in {{"a", "A"}, {"t", "T"}, {"i", "I"}, {"f", "F"}}

RECURSIVE PrefixEnds(_, _, _)
\* The lengths of the prefixes of s that the first i tokens of a pattern spell,
\* letters compared without case: the language of the pattern, read forwards.
PrefixEnds(pat, i, s) ==
    IF i = 0 THEN {0}
    ELSE LET before == PrefixEnds(pat, i - 1, s)
         IN CASE pat[i].t = "lit" ->
                   {j + 1 : j \in {e \in before :
                                     e < Len(s) /\ SameLetter(s[e + 1], pat[i].c)}}
              [] pat[i].t = "dot" ->
                   {j + 1 : j \in {e \in before : e < Len(s)}}
              [] OTHER ->
                   {j \in 0..Len(s) : \E e \in before : e <= j}

\* The path starts with a text that some pattern of the list spells.
Included(patterns, path) ==
    \E k \in 1..Len(patterns) : PrefixEnds(patterns[k], Len(patterns[k]), path) # {}

\* The source paths of a raster catalog entry, of a layer, and of a container.
RasterSources(id) ==
    IF HasKey(project_rasters, id)
    THEN Range(OccurrencePaths(project_rasters[KeyIndex(project_rasters, id)].occurences))
    ELSE {}

LayerSources(id, fc_name) ==
    IF HasKey(project_vectors, id)
    THEN LET layers == project_vectors[KeyIndex(project_vectors, id)].layers
         IN IF HasKey(layers, fc_name)
            THEN Range(OccurrencePaths(layers[KeyIndex(layers, fc_name)].occurences))
            ELSE {}
    ELSE {}

\* Every source path the vector catalog holds for a container.
ContainerSources(id) ==
    IF HasKey(project_vectors, id)
    THEN LET entry == project_vectors[KeyIndex(project_vectors, id)]
         IN {entry.abs_path} \cup
            UNION {Range(OccurrencePaths(entry.layers[l].occurences)) :
                       l \in 1..Len(entry.layers)}
    ELSE {}

Skipped(logger, path) ==
    \E e \in 1..Len(log) :
        /\ log[e].logger = logger
        /\ log[e].msg = "Skipping non-regex raster"
        /\ log[e].path = path

AllFolded == Folded = Len(projects)

\* The projects that declare the identity under one of the tags with a path
\* that the inclusion patterns admit.
MatchingProjects(tags, id) ==
    {k \in 1..Len(projects) :
        \E n \in Elements(TreeOf(k), tags) :
            /\ TreeOf(k)[n].attr = id
            /\ Included(regex_list, PathOf(TreeOf(k), n))}

\* The declarations of the identity, over all projects, that the patterns admit.
MatchingDeclarations(tags, id) ==
    {kn \in UNION {{<<k, n>> : n \in Elements(TreeOf(k), tags)} : k \in 1..Len(projects)} :
        /\ TreeOf(kn[1])[kn[2]].attr = id
        /\ Included(regex_list, PathOf(TreeOf(kn[1]), kn[2]))}

\* The declarations of a layer inside admitted containers of the identity.
MatchingLayerDeclarations(id, fc_name) ==
    {kv \in UNION {{<<k, v>> : v \in Elements(TreeOf(k), {"Vector"})} : k \in 1..Len(projects)} :
        /\ TreeOf(kv[1])[kv[2]].attr = fc_name
        /\ \E g \in MatchingDeclarations({"Geopackage"}, id) :
               g[1] = kv[1] /\ IsDescendant(TreeOf(kv[1]), kv[2], g[2])}

RECURSIVE RasterCatalogOf(_, _)
\* The raster catalog that folding the projects in the order of keys gives.
RasterCatalogOf(keys, cat) ==
    IF keys = << >> THEN cat
    ELSE RasterCatalogOf(Tail(keys),
             get_raster_datasets(Head(keys), [cat |-> cat, log |-> << >>], regex_list).cat)

RECURSIVE VectorCatalogOf(_, _)
VectorCatalogOf(keys, cat) ==
    IF keys = << >> THEN cat
    ELSE VectorCatalogOf(Tail(keys),
             get_vector_datasets(Head(keys), [cat |-> cat, log |-> << >>], regex_list).cat)

\* The lengths of the occurrence lists of a catalog, by identity (and layer).
RasterCounts(cat) ==
    {<<cat[e].key, Len(cat[e].occurences)>> : e \in 1..Len(cat)}

LayerCounts(cat) ==
    UNION {{<<cat[e].key, cat[e].layers[l].key, Len(cat[e].layers[l].occurences)>> :
               l \in 1..Len(cat[e].layers)} : e \in 1..Len(cat)}

Orders(keys) ==
    {f \in [1..Len(keys) -> Range(keys)] : Range(f) = Range(keys)}

\* C4 as claimed: after the fold, the occurrence list of every raster identity
\* and of every container identity (each of its layers, of which it has at
\* least one) is as long as the number of projects that declare the identity
\* with an admitted path.
C4_OccurrencesCountProjects ==
    AllFolded =>
        /\ \A e \in 1..Len(project_rasters) :
             Len(project_rasters[e].occurences) =
                 Cardinality(MatchingProjects({"Raster", "DEM"}, project_rasters[e].key))
        /\ \A e \in 1..Len(project_vectors) :
             /\ Len(project_vectors[e].layers) > 0
             /\ \A l \in 1..Len(project_vectors[e].layers) :
                  Len(project_vectors[e].layers[l].occurences) =
                      Cardinality(MatchingProjects({"Geopackage"}, project_vectors[e].key))

\* C4 amended: the occurrence list of a raster identity is as long as the number
\* of admitted declarations of that identity over all projects (the number of
\* projects when none declares it twice); the occurrence list of a layer of a
\* container identity is as long as the number of admitted declarations of that
\* layer; a container without layers has no occurrence; and these lengths are
\* the same for every order of the projects.
C4_OccurrencesCountDeclarations ==
    AllFolded =>
        /\ \A e \in 1..Len(project_rasters) :
             LET id == project_rasters[e].key
                 declared == MatchingDeclarations({"Raster", "DEM"}, id)
             IN /\ Len(project_rasters[e].occurences) = Cardinality(declared)
                /\ (\A a, b \in declared : a[1] = b[1] => a = b) =>
                       Len(project_rasters[e].occurences) =
                           Cardinality(MatchingProjects({"Raster", "DEM"}, id))
        /\ \A e \in 1..Len(project_vectors) :
             \A l \in 1..Len(project_vectors[e].layers) :
                 Len(project_vectors[e].layers[l].occurences) =
                     Cardinality(MatchingLayerDeclarations(project_vectors[e].key,
                                     project_vectors[e].layers[l].key))
        /\ \A order \in Orders(projects) :
             /\ RasterCounts(RasterCatalogOf(order, << >>)) = RasterCounts(project_rasters)
             /\ LayerCounts(VectorCatalogOf(order, << >>)) = LayerCounts(project_vectors)

\* C4 witness: p2 and p3 are folded; SLOPE, which p3 declares twice, has three
\* occurrences from two projects, and the container of p3 has no layer.
C4_Witness ==
    /\ AllFolded
    /\ Len(projects) = 2
    /\ <<"SLOPE", 3>> \in RasterCounts(project_rasters)
    /\ \E e \in 1..Len(project_vectors) : Len(project_vectors[e].layers) = 0

\* C5: once a catalog entry exists, no step changes its display name or its
\* relative output path (nor a layer's display name): the catalog keeps its
\* entries in place and a step only appends source paths to them.
C5_FirstOccurrenceNames ==
    [][ /\ \A e \in 1..Len(project_rasters) :
             /\ e <= Len(project_rasters')
             /\ project_rasters'[e].key = project_rasters[e].key
             /\ project_rasters'[e].name = project_rasters[e].name
             /\ project_rasters'[e].path = project_rasters[e].path
             /\ Len(project_rasters[e].occurences) <= Len(project_rasters'[e].occurences)
             /\ SubSeq(project_rasters'[e].occurences, 1, Len(project_rasters[e].occurences))
                    = project_rasters[e].occurences
        /\ \A e \in 1..Len(project_vectors) :
             /\ e <= Len(project_vectors')
             /\ project_vectors'[e].key = project_vectors[e].key
             /\ project_vectors'[e].name = project_vectors[e].name
             /\ project_vectors'[e].rel_path = project_vectors[e].rel_path
             /\ project_vectors'[e].abs_path = project_vectors[e].abs_path
             /\ \A l \in 1..Len(project_vectors[e].layers) :
                  /\ l <= Len(project_vectors'[e].layers)
                  /\ project_vectors'[e].layers[l].key = project_vectors[e].layers[l].key
                  /\ project_vectors'[e].layers[l].name = project_vectors[e].layers[l].name
        /\ (pc = "fold" /\ ProjectOf(projects[idx]).xml_ok) => pc' # "failed"
      ]_vars

\* C5 witness: p1 then p2 are folded; the DEM entry keeps p1's name and path
\* and holds p2's file, declared as "Elevation" at A.TIF, as second occurrence;
\* the container keeps p1's name and path although p2 calls it "Net" at m.gpkg.
C5_Witness ==
    /\ AllFolded
    /\ projects = <<"p1", "p2">>
    /\ \E e \in 1..Len(project_rasters) :
          /\ project_rasters[e].key = "DEM"
          /\ project_rasters[e].name = "DEM"
          /\ project_rasters[e].path = P_a_tif
          /\ OccurrencePaths(project_rasters[e].occurences)
                 = <<AbsPath("p1", P_a_tif), AbsPath("p2", P_A_TIF)>>
    /\ \E e \in 1..Len(project_vectors) :
          /\ project_vectors[e].key = "NET"
          /\ project_vectors[e].name = "Network"
          /\ project_vectors[e].rel_path = P_n_gpkg
          /\ AbsPath("p2", P_m_gpkg) \in LayerSources("NET", "points")

\* C6: with two or more projects, the tree that merge_projects loads as the
\* template is the tree of the first project of the supplied order.
C6_TemplateIsFirstProject ==
    (pc = "replace_log" /\ Len(projects) >= 2) =>
        /\ first_project_xml = projects[1]
        /\ merged_xml = merge_project(projects[1], projects, union_out)

\* The tree holds a declaration with this tag, id and path.
Declares(tree, tag, id, path) ==
    \E m \in Elements(tree, {tag}) :
        /\ tree[m].attr = id
        /\ Find(tree, m, "Path") # 0
        /\ PathOf(tree, m) = path

\* The dataset declarations of a tree: the elements that name a file, the
\* extent and the log apart (their paths are rewritten).
Datasets(tree) == Elements(tree, {"Raster", "DEM", "Geopackage", "HTMLFile"})

\* The catalog holds the identity and its merged file is in merged_dir.
RasterProduced(id) ==
    \E e \in 1..Len(project_rasters) :
        /\ project_rasters[e].key = id
        /\ project_rasters[e].path \in DOMAIN merged
        /\ merged[project_rasters[e].path].kind = "raster"
        /\ merged[project_rasters[e].path].from = id

VectorProduced(id) ==
    \E e \in 1..Len(project_vectors) :
        /\ project_vectors[e].key = id
        /\ project_vectors[e].rel_path \in DOMAIN merged
        /\ merged[project_vectors[e].rel_path].kind = "gpkg"
        /\ merged[project_vectors[e].rel_path].from = id

Produced(tag, id) ==
    IF tag = "Geopackage" THEN VectorProduced(id)
    ELSE tag \in {"Raster", "DEM"} /\ RasterProduced(id)

\* C7: a declaration of the template whose path no inclusion pattern admits is
\* absent from the merged tree, whatever its extension, and a declaration whose
\* path was admitted and whose dataset was merged is still there.
C7_ExcludedDeclarationsPruned ==
    pc = "done" =>
        LET template == ProjectOf(first_project_xml).tree
        IN \A n \in Datasets(template) :
             LET tag == template[n].tag
                 id == template[n].attr
                 path == PathOf(template, n)
             IN /\ ~Included(regex_list, path) =>
                       ~Declares(merged_xml.tree, tag, id, path)
                /\ (Included(regex_list, path) /\ Produced(tag, id)) =>
                       Declares(merged_xml.tree, tag, id, path)

\* C8: every raster identity and every container identity for which a merged
\* file was produced is declared in the merged project.rs.xml.
C8_ProducedAreDeclared ==
    pc = "done" =>
        /\ \A e \in 1..Len(project_rasters) :
             RasterProduced(project_rasters[e].key) =>
                 \E m \in Elements(merged_xml.tree, {"Raster", "DEM"}) :
                     merged_xml.tree[m].attr = project_rasters[e].key
        /\ \A e \in 1..Len(project_vectors) :
             VectorProduced(project_vectors[e].key) =>
                 \E m \in Elements(merged_xml.tree, {"Geopackage"}) :
                     merged_xml.tree[m].attr = project_vectors[e].key

\* C9: when no extent file was found, union_polygons fails with
\* InsufficientInputError and merge_projects ends without a merged
\* project.rs.xml.
C9_ZeroExtentsInsufficientInput ==
    (/\ AllFolded
     /\ Len(bounds_geojson_files) = 0
     /\ pc \notin {"fold", "rasters", "vectors", "union"}
     /\ error # "RasterOpenError") =>
        /\ pc = "failed"
        /\ error = "InsufficientInputError"
        /\ ~merged_xml.written

\* C10: for a non-empty list of extent files, every order of the list gives
\* what the call returned: the same polygon written, the same centroid, the
\* same bounding rectangle, or the same exception.
C10_UnionOrderIndependent ==
    (pc # "union" /\ bounds_geojson_files # << >>) =>
        \A order \in Orders(bounds_geojson_files) :
            LET u == union_polygons(order, use_exceptions)
            IN IF pc = "failed"
               THEN u.status = "raise" /\ u.error = error
               ELSE u = union_out

\* C10 witness: three extents that touch nowhere were united (the union is in
\* several parts) and the call returned.
C10_Witness ==
    /\ pc = "write"
    /\ Len(bounds_geojson_files) = 3
    /\ union_out.status = "ok"
    /\ \A a, b \in Range(bounds_geojson_files) :
          a # b => \A c \in ExtentOf(a[1]), d \in ExtentOf(b[1]) :
                       c # d /\ ~Adjacent(c, d)

\* The extent polygon of the only extent file handed to union_polygons.
OnlyExtent == ExtentOf(bounds_geojson_files[1][1])

\* C11 as claimed: union_polygons on a single extent polygon writes that polygon
\* and returns its own centroid and bounding rectangle, whatever the polygon.
C11_SingleInputIsItself ==
    (pc = "write" /\ Len(bounds_geojson_files) = 1) =>
        /\ union_out.polygon = OnlyExtent
        /\ union_out.centroid = Centroid(OnlyExtent)
        /\ union_out.bounding_rect = GetEnvelope(OnlyExtent)

\* C11 amended: union_polygons on a single extent polygon returns that polygon's
\* own bounding rectangle, and writes the polygon with its interior rings filled
\* and returns the centroid of that filled polygon; the polygon written and the
\* centroid are the input's own exactly when the input has no interior ring
\* (a centroid can coincide by symmetry).
C11_SingleInputIsItsOuterRing ==
    (pc = "write" /\ Len(bounds_geojson_files) = 1) =>
        /\ union_out.status = "ok"
        /\ union_out.bounding_rect = GetEnvelope(OnlyExtent)
        /\ union_out.polygon = OnlyExtent \cup Holes(OnlyExtent)
        /\ union_out.centroid = Centroid(OnlyExtent \cup Holes(OnlyExtent))
        /\ (union_out.polygon = OnlyExtent) <=> (Holes(OnlyExtent) = {})
        /\ Holes(OnlyExtent) = {} => union_out.centroid = Centroid(OnlyExtent)

\* C11 witness: the only extent is a polygon with an interior ring; what was
\* written has the ring filled and the centroid returned is not the input's.
C11_Witness ==
    /\ pc = "write"
    /\ Len(bounds_geojson_files) = 1
    /\ Holes(OnlyExtent) # {}
    /\ union_out.polygon # OnlyExtent
    /\ union_out.centroid # Centroid(OnlyExtent)

\* C12: the bounding box of the merged project.rs.xml has its min-x, min-y,
\* max-x and max-y fields equal to the matching components of the rectangle
\* (min-x, max-x, min-y, max-y) that union_polygons returned (read here on the
\* cybercastor merge_projects; the riverscapes one is held to the same formula).
C12_BoundingBoxMatchesRectangle ==
    merged_xml.written =>
        /\ merged_xml.bounding_box.minLng = union_out.bounding_rect[1]
        /\ merged_xml.bounding_box.maxLng = union_out.bounding_rect[2]
        /\ merged_xml.bounding_box.minLat = union_out.bounding_rect[3]
        /\ merged_xml.bounding_box.maxLat = union_out.bounding_rect[4]

\* The source files that the step removes from disk.
Deleted == disk \ disk'

\* The step leaves the mosaic of the identity in merged_dir.
MosaicWritten(raster_info) ==
    /\ raster_info.path \in DOMAIN merged'
    /\ merged'[raster_info.path].kind = "raster"
    /\ merged'[raster_info.path].from = raster_info.id
    /\ merged' # merged

\* C13: a pass of process_rasters removes source rasters of its identity only,
\* and only when the mosaic command of that pass succeeded: a pass whose mosaic
\* fails removes no source file.
C13_DeleteOnlyAfterSuccess ==
    [][ pc = "rasters" =>
          LET raster_info == project_rasters[idx]
          IN /\ Deleted \subseteq Range(OccurrencePaths(raster_info.occurences))
             /\ Deleted # {} => MosaicWritten(raster_info)
      ]_vars

\* The source files on disk when merge_projects starts.
SourceFiles ==
    UNION {{AbsPath(ProjectOf(k).root, f) : f \in ProjectOf(k).files} : k \in Range(projects)}

\* The mosaic command of the catalog entry was run.
Executed(raster_info) ==
    \E e \in 1..Len(log) :
        /\ log[e].logger = "Rasters"
        /\ log[e].msg = "EXECUTING"
        /\ log[e].path = raster_info.path
        /\ log[e].what = raster_info.name

\* C14: no failure to open a source raster leaves process_rasters, and once
\* process_rasters is over the mosaic command was run for every identity of the
\* catalog whose occurrence files all exist, whatever happened to the others.
C14_RasterFailuresIsolated ==
    /\ error # "RasterOpenError"
    /\ (AllFolded /\ pc \notin {"fold", "rasters"} /\ error # "ParseError") =>
           \A e \in 1..Len(project_rasters) :
               Range(OccurrencePaths(project_rasters[e].occurences)) \subseteq SourceFiles
                   => Executed(project_rasters[e])

\* The place of a project root in the supplied order.
ProjectIndex(root) == CHOOSE k \in 1..Len(projects) : RootOf(k) = root

\* C15: the inputs of every mosaic in merged_dir are the files of the admitted
\* declarations of its identity that exist, in the order in which the projects
\* were supplied: no input of a project comes before an input of a project
\* supplied earlier, so the input painted last is one of the last-supplied
\* project that has one.
C15_MosaicInputsInProjectOrder ==
    \A path \in DOMAIN merged :
        merged[path].kind = "raster" =>
            LET inputs == merged[path].inputs
                declared == {AbsPath(RootOf(kn[1]), PathOf(TreeOf(kn[1]), kn[2])) :
                                kn \in MatchingDeclarations({"Raster", "DEM"}, merged[path].from)}
            IN /\ Range(inputs) = declared \cap SourceFiles
               /\ \A i, j \in 1..Len(inputs) :
                      i < j => ProjectIndex(inputs[i][1]) <= ProjectIndex(inputs[j][1])
               /\ \A f \in declared \cap SourceFiles :
                      ProjectIndex(f[1]) <= ProjectIndex(inputs[Len(inputs)][1])

\* C15 witness: p1 then p2 were supplied and the mosaic of DEM was made from
\* p1's file first and p2's file last.
C15_Witness ==
    /\ projects = <<"p1", "p2">>
    /\ P_a_tif \in DOMAIN merged
    /\ merged[P_a_tif].from = "DEM"
    /\ merged[P_a_tif].inputs = <<AbsPath("p1", P_a_tif), AbsPath("p2", P_A_TIF)>>

\* process_rasters and process_vectors have run to their end.
AfterVectors ==
    /\ AllFolded
    /\ pc \notin {"fold", "rasters", "vectors"}
    /\ error \notin {"ParseError", "RasterOpenError"}

\* The features of a layer in the output container of an identity.
OutputFeatures(id, fc_name) ==
    LET entry == project_vectors[KeyIndex(project_vectors, id)]
    IN IF /\ entry.rel_path \in DOMAIN merged
          /\ merged[entry.rel_path].kind = "gpkg"
          /\ merged[entry.rel_path].from = id
          /\ HasKey(merged[entry.rel_path].layers, fc_name)
       THEN LET layers == merged[entry.rel_path].layers
            IN FeaturesOf(layers[KeyIndex(layers, fc_name)].sources, fc_name)
       ELSE 0

\* The source containers of the projects that declare the layer for the identity.
DeclaringContainers(id, fc_name) ==
    {AbsPath(RootOf(g[1]), PathOf(TreeOf(g[1]), g[2])) :
        g \in {h \in MatchingDeclarations({"Geopackage"}, id) :
                  \E kv \in MatchingLayerDeclarations(id, fc_name) :
                      kv[1] = h[1] /\ IsDescendant(TreeOf(h[1]), kv[2], h[2])}}

RECURSIVE SumFeatures(_, _)
SumFeatures(files, fc_name) ==
    IF files = {} THEN 0
    ELSE LET f == CHOOSE x \in files : TRUE
         IN FeatureCount(f, fc_name) + SumFeatures(files \ {f}, fc_name)

\* C16: after process_vectors, for every container identity of the catalog and
\* every layer declared for it by some project, the output layer of that name
\* holds as many features as the layer has in the containers of all the
\* projects that declare it, added up.
C16_LayerFeaturesAddUp ==
    AfterVectors =>
        \A e \in 1..Len(project_vectors) :
            \A l \in 1..Len(project_vectors[e].layers) :
                LET id == project_vectors[e].key
                    fc_name == project_vectors[e].layers[l].key
                IN OutputFeatures(id, fc_name) =
                       SumFeatures(DeclaringContainers(id, fc_name), fc_name)

\* The log holds an entry of the level and message about the file and the layer.
VectorLogged(level, msg, input_gpkg_file, feature_class) ==
    \E e \in 1..Len(log) :
        /\ log[e].logger = "Vectors"
        /\ log[e].level = level
        /\ (msg # "" => log[e].msg = msg)
        /\ log[e].path = input_gpkg_file
        /\ log[e].what = feature_class

\* The append of the layer from this source container cannot succeed.
CannotOpen(input_gpkg_file, feature_class) ==
    input_gpkg_file \notin SourceFiles \/ feature_class \notin LayersOfFile(input_gpkg_file)

\* C17: after process_vectors, the append was run for every occurrence of every
\* layer of every container of the catalog, and for every occurrence whose
\* container or layer could not be opened the log holds a warning about it.
C17_FailedAppendSkippedWithWarning ==
    AfterVectors =>
        \A e \in 1..Len(project_vectors) :
            \A l \in 1..Len(project_vectors[e].layers) :
                LET layer == project_vectors[e].layers[l]
                IN \A o \in 1..Len(layer.occurences) :
                      /\ VectorLogged("debug", "EXECUTING", layer.occurences[o].path, layer.fc_name)
                      /\ CannotOpen(layer.occurences[o].path, layer.fc_name) =>
                             VectorLogged("warning", "", layer.occurences[o].path, layer.fc_name)

\* The log holds a warning of merge_projects about the project.
SkipWarned(project) ==
    \E e \in 1..Len(log) :
        /\ log[e].logger = "Merging"
        /\ log[e].level = "warning"
        /\ log[e].what = project

\* C18: a project whose project.rs.xml is missing or cannot be parsed does not
\* end the merge: once the loop over the projects is over, every such project
\* was skipped with a warning and every admitted raster and container
\* declaration of every other project is in the catalogs.
C18_UnparsableProjectSkipped ==
    /\ error # "ParseError"
    /\ pc # "fold" =>
          \A k \in 1..Len(projects) :
              IF ~ProjectOf(projects[k]).xml_ok
              THEN SkipWarned(projects[k])
              ELSE /\ \A n \in Elements(TreeOf(k), {"Raster", "DEM"}) :
                        Included(regex_list, PathOf(TreeOf(k), n)) =>
                            AbsPath(RootOf(k), PathOf(TreeOf(k), n))
                                \in RasterSources(TreeOf(k)[n].attr)
                   /\ \A n \in Elements(TreeOf(k), {"Geopackage"}) :
                        Included(regex_list, PathOf(TreeOf(k), n)) =>
                            HasKey(project_vectors, TreeOf(k)[n].attr)

\* The names of the project-level metadata entries of the merged tree, in order.
MetaNames == [k \in 1..Len(merged_xml.meta_data) |-> merged_xml.meta_data[k][1]]

\* C19 as claimed: the project-level metadata of the merged tree is the
\* provenance entry, the creation timestamp, a merge-type tag and the collection
\* identifier, and nothing else; the warehouse reference is cleared.
C19_FreshMetadataWithTypeTag ==
    merged_xml.written =>
        /\ Len(merged_xml.meta_data) = 4
        /\ {"projects", "Date Created", "Collection ID"} \subseteq Range(MetaNames)
        /\ merged_xml.warehouse = ""

\* C19 amended: the project-level metadata of the merged tree is exactly three
\* entries: 'projects', listing one identifier per source project in the
\* supplied order, 'Date Created' and 'Collection ID'; there is no merge-type
\* tag; no metadata entry of the template survives; and the warehouse reference
\* is cleared.
C19_FreshMetadata ==
    merged_xml.written =>
        /\ MetaNames = <<"projects", "Date Created", "Collection ID">>
        /\ merged_xml.meta_data[1][2] = [k \in 1..Len(projects) |-> ProjectOf(projects[k]).id]
        /\ \A m \in Range(ProjectOf(first_project_xml).meta) : m[1] \notin Range(MetaNames)
        /\ merged_xml.warehouse = ""

\* C19 witness: two projects were merged; the template had a metadata entry and
\* a warehouse reference of its own, and the merged tree is written.
C19_Witness ==
    /\ merged_xml.written
    /\ Len(projects) = 2
    /\ ProjectOf(first_project_xml).meta # << >>
    /\ ProjectOf(first_project_xml).warehouse # ""
    /\ Len(merged_xml.meta_data[1][2]) = 2

\* The Path elements of the log-file declarations of a tree.
LogPaths(tree) ==
    {n \in Elements(tree, {"Path"}) : tree[tree[n].parent].tag = "LogFile"}

\* C20: once replace_log_file has run, every log-file declaration of the merged
\* project.rs.xml names the log of the merge, and no Path of the tree names the
\* log file of a source project.
C20_LogPathsAreMergeLog ==
    (merged_xml.written /\ pc # "replace_log") =>
        /\ \A n \in LogPaths(merged_xml.tree) : merged_xml.tree[n].path = P_merge_log
        /\ \A n \in Elements(merged_xml.tree, {"Path"}) : merged_xml.tree[n].path # P_x_log

\* C20 witness: the template declared its own log x.log, the merge is complete
\* and the declaration is still there, naming the log of the merge.
C20_Witness ==
    /\ pc = "done"
    /\ \E n \in LogPaths(ProjectOf(first_project_xml).tree) :
          ProjectOf(first_project_xml).tree[n].path = P_x_log
    /\ \E n \in LogPaths(merged_xml.tree) : merged_xml.tree[n].path = P_merge_log

\* C21: a second run of merge_projects on the same source projects, output
\* directory, patterns and flags ends without an exception and leaves in
\* merged_dir the same files and the same project.rs.xml as the first run.
C21_RerunLeavesTheSame ==
    (earlier_run.count >= 1 /\ pc \in {"done", "failed"}) =>
        /\ pc = "done"
        /\ merged = earlier_run.merged
        /\ merged_xml = earlier_run.merged_xml

\* The extension of a file name: what follows its last dot, in small letters
\* (nothing for a name without a dot).
Extension(text) ==
    LET dots == {k \in 1..Len(text) : text[k] = "."}
    IN IF dots = {} THEN << >>
       ELSE LowerStr(SubSeq(text, Max(dots) + 1, Len(text)))

RetainedKind(text) == Extension(text) \in Range(file_ext)

\* The entries that hold a Path without the extension of a retained kind.
Unretained(tree) ==
    {tree[n].parent : n \in {m \in Elements(tree, {"Path"}) : ~RetainedKind(tree[m].path)}}

\* C22: delete_unmerged_paths removes from the tree the parent entry of every
\* Path whose text does not have the extension of a retained kind (gpkg,
\* geojson, tif, tiff, log), with everything below it, and nothing else: every
\* other element is kept as it was, in document order.
C22_PrunesByExtension ==
    [][ pc = "delete_unmerged" =>
          merged_xml'.tree = Serialize(merged_xml.tree, Unretained(merged_xml.tree))
      ]_vars

\* The extent polygons handed to union_polygons, and the cells they cover.
InputExtents == {ExtentOf(f[1]) : f \in Range(bounds_geojson_files)}

AllInputCells == UNION InputExtents

\* C23: for a non-empty list of extents union_polygons returns, and what it
\* writes is the union of the inputs with the interior rings filled, so that
\* it covers every input, and the rectangle returned is the least and greatest
\* bounds over the rectangles of the inputs.
C23_UnionCoversInputs ==
    (pc # "union" /\ bounds_geojson_files # << >>) =>
        /\ pc = "write"
        /\ union_out.polygon = AllInputCells \cup Holes(AllInputCells)
        /\ \A extent \in InputExtents : extent \subseteq union_out.polygon
        /\ union_out.bounding_rect =
              << Min({GetEnvelope(extent)[1] : extent \in InputExtents}),
                 Max({GetEnvelope(extent)[2] : extent \in InputExtents}),
                 Min({GetEnvelope(extent)[3] : extent \in InputExtents}),
                 Max({GetEnvelope(extent)[4] : extent \in InputExtents}) >>

\* The integer-valued sample types of the raster library.
IntegerTypes ==
    {"GDT_Byte", "GDT_Int8", "GDT_UInt16", "GDT_Int16", "GDT_UInt32", "GDT_Int32",
     "GDT_UInt64", "GDT_Int64"}

\* C24: every mosaic command is given DEFLATE when the sample type of the
\* first occurrence of its identity is integer-valued and LZW when it is
\* floating-point, and is given the no-data value of that occurrence exactly
\* when the occurrence has one.
C24_CodecFollowsSampleType ==
    \A e \in 1..Len(log) :
        (log[e].logger = "Rasters" /\ log[e].msg = "EXECUTING") =>
            LET first == Raster(log[e].input_rasters[1])
            IN /\ log[e].co = IF first.dataType \in IntegerTypes
                              THEN "COMPRESS=DEFLATE" ELSE "COMPRESS=LZW"
               /\ log[e].no_data = IF first.nodata = "None" THEN << >>
                                   ELSE <<"-a_nodata", first.nodata>>

\* The stages of merge_projects that make the merged project.rs.xml.
SynthesisStages == {"write", "replace_log", "delete_unmerged", "done"}

\* process_vectors has processed the catalog entry.
Processed(gpkg_info) ==
    \E e \in 1..Len(log) :
        /\ log[e].logger = "Vectors"
        /\ log[e].msg = "Processing GeoPackage"
        /\ log[e].path = gpkg_info.rel_path
        /\ log[e].what = gpkg_info.name

\* Every merge executor is over: each raster entry was mosaicked, each container
\* entry was processed, and the extent file is written.
ExecutorsDone ==
    /\ \A e \in 1..Len(project_rasters) : Executed(project_rasters[e])
    /\ \A e \in 1..Len(project_vectors) : Processed(project_vectors[e])
    /\ union_out.status = "ok"
    /\ P_project_bounds \in DOMAIN merged

\* C25: merge_projects enters the stages that make the merged project.rs.xml
\* only when every merge executor is over, and from the first of these stages
\* on no step changes a file of merged_dir or a source file.
C25_SynthesisAfterExecutors ==
    [][ /\ pc' \in SynthesisStages => ExecutorsDone'
        /\ pc \in SynthesisStages => (merged' = merged /\ disk' = disk /\ union_out' = union_out)
      ]_vars

\* C25 witness: a merge with a raster and a container in its catalogs is
\* complete.
C25_Witness ==
    /\ pc = "done"
    /\ Len(project_rasters) > 0
    /\ Len(project_vectors) > 0
    /\ merged_xml.written

\* The log holds an entry about the path; with levels given, one of these levels.
Logged(levels, path) ==
    \E e \in 1..Len(log) : log[e].path = path /\ log[e].level \in levels

AnyLevel == {"debug", "info", "warning", "error"}

Problem == {"warning", "error"}

\* The declared extent file of a project.
DeclaredBounds(k) ==
    AbsPath(RootOf(k), TreeOf(k)[Head(FindAllUnder(TreeOf(k), "ProjectBounds", "Path"))].path)

\* C26: every omission of a merge is in the log: every raster and container
\* that the inclusion patterns skipped, every declared extent file that is
\* absent and so left out of the union, every mosaic that failed and left no
\* output, and every append whose container or layer could not be opened.
C26_OmissionsLogged ==
    /\ \A k \in 1..Folded :
          /\ \A n \in Elements(TreeOf(k), {"Raster", "DEM"}) :
                ~Included(regex_list, PathOf(TreeOf(k), n)) =>
                    Skipped("Rasters", PathOf(TreeOf(k), n))
          /\ \A n \in Elements(TreeOf(k), {"Geopackage"}) :
                ~Included(regex_list, PathOf(TreeOf(k), n)) =>
                    Skipped("Vectors", PathOf(TreeOf(k), n))
          /\ DeclaredBounds(k) \notin SourceFiles => Logged(AnyLevel, DeclaredBounds(k))
    /\ AfterVectors =>
          /\ \A e \in 1..Len(project_rasters) :
                project_rasters[e].path \notin DOMAIN merged =>
                    Logged(Problem, project_rasters[e].path)
          /\ \A e \in 1..Len(project_vectors) :
                \A l \in 1..Len(project_vectors[e].layers) :
                    LET layer == project_vectors[e].layers[l]
                    IN \A o \in 1..Len(layer.occurences) :
                          CannotOpen(layer.occurences[o].path, layer.fc_name) =>
                              Logged(Problem, layer.occurences[o].path)

\* C27: when the answer to main's prompt is the default or empty, the pattern
\* list handed to merge_projects admits every declared raster and container:
\* each one declared by a folded project is in the catalogs.
C27_DefaultAdmitsAll ==
    regex_list \in {file_regex_list(default_file_regex), file_regex_list(EmptyAnswer)} =>
        \A k \in 1..Folded :
            /\ \A n \in Elements(TreeOf(k), {"Raster", "DEM"}) :
                  AbsPath(RootOf(k), PathOf(TreeOf(k), n)) \in RasterSources(TreeOf(k)[n].attr)
            /\ \A n \in Elements(TreeOf(k), {"Geopackage"}) :
                  HasKey(project_vectors, TreeOf(k)[n].attr)

\* C28: delete_unmerged_paths returns without an exception for every
\* well-formed tree.
C28_DeleteNeverRaises ==
    pc # "delete_unmerged" => (pc = "done" /\ error = "")

\* The mosaic of a raster identity is in merged_dir, made of its occurrences.
OwnMosaic(raster_info) ==
    /\ raster_info.path \in DOMAIN merged
    /\ merged[raster_info.path] =
           Content("raster", raster_info.id, OccurrencePaths(raster_info.occurences), << >>)

\* The source containers of a container identity from which ogr2ogr can append
\* a layer.
Appendable(gpkg_info) ==
    {f \in SourceFiles :
        \E l \in 1..Len(gpkg_info.layers) :
            /\ f \in Range(OccurrencePaths(gpkg_info.layers[l].occurences))
            /\ gpkg_info.layers[l].fc_name \in LayersOfFile(f)}

\* The output container of a container identity is in merged_dir and every
\* layer in it was appended from occurrences of that identity.
OwnContainer(gpkg_info) ==
    /\ gpkg_info.rel_path \in DOMAIN merged
    /\ merged[gpkg_info.rel_path].kind = "gpkg"
    /\ merged[gpkg_info.rel_path].from = gpkg_info.id
    /\ \A l \in 1..Len(merged[gpkg_info.rel_path].layers) :
           Range(merged[gpkg_info.rel_path].layers[l].sources) \subseteq Appendable(gpkg_info)

\* C29: once process_rasters and process_vectors are over, the output of every
\* raster identity whose occurrence files all exist is the mosaic of its own
\* occurrences, and the output of every container identity with a layer that
\* can be appended is the container made from its own occurrences: no pass
\* for another identity has removed or replaced it.
C29_OutputsArePerIdentity ==
    AfterVectors =>
        /\ \A e \in 1..Len(project_rasters) :
               Range(OccurrencePaths(project_rasters[e].occurences)) \subseteq SourceFiles
                   => OwnMosaic(project_rasters[e])
        /\ \A e \in 1..Len(project_vectors) :
               Appendable(project_vectors[e]) # {} => OwnContainer(project_vectors[e])

\* C30: whatever projects were folded, every entry of the raster catalog has
\* an occurrence, and every entry of the vector catalog has a layer that has an
\* occurrence.
C30_CatalogEntriesHaveOccurrences ==
    /\ \A e \in 1..Len(project_rasters) : Len(project_rasters[e].occurences) >= 1
    /\ \A e \in 1..Len(project_vectors) :
           \E l \in 1..Len(project_vectors[e].layers) :
               Len(project_vectors[e].layers[l].occurences) >= 1

====
